---- MODULE Spec2Model ----
(***************************************************************************)
(* A model of the pull-based MessagePack stream decoder                    *)
(* (src/src/StreamDecoder.ts) and of its entry points (src/src/decode.ts). *)
(*                                                                         *)
(* The decoder is modelled at the granularity of one invocation of the     *)
(* pull source: readBytes is a loop of Pull steps, and the deterministic   *)
(* code between two reads is one action.  Bytes are integers 0..255.  A    *)
(* binary value is a view (buffer identity, length) on the scratch buffer  *)
(* that readBytes returned, exactly as `this.bytes.subarray(0, length)`    *)
(* is; its contents are looked up in the heap when the value is observed.  *)
(***************************************************************************)
EXTENDS Integers, Sequences, FiniteSets, TLC

VARIABLES
    input,      \* all the bytes the pull source will ever hold
    consumed,   \* how many of them the source has handed out
    options,    \* the DecodeOptions the caller passed to decodeStream
    headByte,   \* StreamDecoder.headByte
    stack,      \* StreamDecoder.stack
    cap,        \* StreamDecoder.view.byteLength
    cur,        \* identity of the ArrayBuffer behind view / bytes
    heap,       \* buffer identity -> the bytes written to it (zero beyond)
    pc,         \* control point of the decoder
    ret,        \* what the read in progress is for
    rd,         \* readBytes activation: [length, pos]
    size,       \* doDecodeSync local: the declared size being processed
    extType,    \* decodeExtension local
    object,     \* doDecodeSync local: the completed value
    mode,       \* "single" (decode) or "multi" (decodeMulti)
    gen,        \* state of the decodeMulti generator
    calls,      \* number of entry-point calls made so far
    outcome,    \* how the latest call ended
    out,        \* the values yielded by the generator, as seen at yield time
    hist,       \* observations of the run (history only, never read by the code)
    enc         \* a call of encode(): its arguments, the Encoder's walk, its outcome

vars == <<input, consumed, options, headByte, stack, cap, cur, heap, pc, ret, rd,
          size, extType, object, mode, gen, calls, outcome, out, hist, enc>>

(***************************************************************************)
(* Bounds of the model.                                                    *)
(***************************************************************************)
MaxInputLen == 3     \* generated inputs: every byte string over Alphabet up to this length
MaxChunk == 2        \* a pull of a short read hands out 1..MaxChunk bytes, or all that is asked
MaxCalls == 3        \* entry-point calls (decode(), generator next()) per run
SmallLimit == 1      \* the value of a configured (non-default) length limit
MaxFineRead == 8     \* reads longer than this are served in halves rather than byte by byte
MaxLevels == 102     \* encoded values nest up to this many arrays around a scalar

(***************************************************************************)
(* Program constants.                                                      *)
(***************************************************************************)
HEAD_BYTE_REQUIRED == -1
DEFAULT_INITIAL_BUFFER_SIZE == 2048
DEFAULT_MAX_DEPTH == 100

\* A 32-bit quantity as two 16-bit halves (TLC integers are 32-bit signed).
UINT32_MAX == [hi |-> 65535, lo |-> 65535]
Limit(n) == [hi |-> n \div 65536, lo |-> n % 65536]
\* size > max, for a size below 2^31 and a 32-bit max
Exceeds(n, max) ==
    \/ n \div 65536 > max.hi
    \/ n \div 65536 = max.hi /\ n % 65536 > max.lo

UNDEFINED == [given |-> FALSE, value |-> 0]
Given(n) == [given |-> TRUE, value |-> n]

Min(a, b) == IF a < b THEN a ELSE b
Max(a, b) == IF a > b THEN a ELSE b

(***************************************************************************)
(* Byte access on a buffer (ArrayBuffers are zero-filled on creation).     *)
(***************************************************************************)
ByteAt(data, i) == IF i < Len(data) THEN data[i + 1] ELSE 0

Zeros(n) == [i \in 1..n |-> 0]

\* Uint8Array.set at offset pos of a buffer whose written prefix is data
WriteAt(data, pos, chunk) ==
    LET padded == IF Len(data) < pos THEN data \o Zeros(pos - Len(data)) ELSE data
    IN  SubSeq(padded, 1, pos) \o chunk \o SubSeq(padded, pos + Len(chunk) + 1, Len(padded))

\* DataView getters at offset 0 (big-endian)
getUint8(data) == ByteAt(data, 0)
getInt8(data) == IF ByteAt(data, 0) >= 128 THEN ByteAt(data, 0) - 256 ELSE ByteAt(data, 0)
getUint16(data) == ByteAt(data, 0) * 256 + ByteAt(data, 1)
getInt16(data) == IF getUint16(data) >= 32768 THEN getUint16(data) - 65536 ELSE getUint16(data)
getInt32(data) ==
    ((getInt8(data) * 256 + ByteAt(data, 1)) * 256 + ByteAt(data, 2)) * 256 + ByteAt(data, 3)
\* exact below 2^31, the range of lengths the model's inputs declare
getUint32(data) ==
    ((ByteAt(data, 0) * 256 + ByteAt(data, 1)) * 256 + ByteAt(data, 2)) * 256 + ByteAt(data, 3)

(***************************************************************************)
(* Decoded values.  typeof is JavaScript's.                                *)
(***************************************************************************)
Undefined == [k |-> "undefined"]
Nil == [k |-> "nil"]
Bool(b) == [k |-> "bool", b |-> b]
Integer(v) == [k |-> "int", v |-> v]
\* a float, or a 64-bit integer, as the bytes DataView turned into a number
Num(fmt, bits) == [k |-> "num", fmt |-> fmt, bits |-> bits]
Str(s) == [k |-> "str", s |-> s]
\* a Uint8Array: a view of len bytes at offset 0 of buffer buf
View(buf, len) == [k |-> "bin", buf |-> buf, len |-> len]
Arr(items) == [k |-> "arr", items |-> items]
Obj(pairs) == [k |-> "map", pairs |-> pairs]
ExtData(type, data) == [k |-> "ext", type |-> type, data |-> data]

typeof(v) ==
    CASE v.k = "str" -> "string"
      [] v.k \in {"int", "num"} -> "number"
      [] v.k = "bool" -> "boolean"
      [] v.k = "undefined" -> "undefined"
      [] OTHER -> "object"

\* a variant of isValidMapKeyType: every primitive passes, booleans too
isValidMapKeyType_Primitive(key) ==
    LET keyType == typeof(key)
    IN  keyType # "object" /\ keyType # "undefined"

isValidMapKeyType(key) ==
    LET keyType == typeof(key)
    IN  keyType = "string" \/ keyType = "number"

\* UTF-16 code units of the text a byte string decodes to (ASCII bytes decode to
\* themselves, a stray high byte to U+FFFD)
utf8Decode(bytes) == [i \in 1..Len(bytes) |-> IF bytes[i] < 128 THEN bytes[i] ELSE 65533]

\* the string "__proto__"
ProtoKey == Str(<<95, 95, 112, 114, 111, 116, 111, 95, 95>>)

\* a variant of the test of line 298: the literal is misspelt "__proto"
isProtoKey_Misspelt(obj) == obj = Str(<<95, 95, 112, 114, 111, 116, 111>>)

\* the test of line 298
isProtoKey(obj) == obj = ProtoKey

RECURSIVE Digits(_)
Digits(n) == IF n < 10 THEN <<48 + n>> ELSE Digits(n \div 10) \o <<48 + (n % 10)>>

\* the property name `map[key] = ...` assigns to: a string key is the name, a
\* number is converted to its decimal text (numbers kept as raw bits stand for
\* themselves), null to "null"
PropertyKey(key) ==
    CASE key.k = "str" -> key.s
      [] key.k = "int" -> IF key.v < 0 THEN <<45>> \o Digits(-key.v) ELSE Digits(key.v)
      [] key.k = "num" -> <<0>> \o key.bits
      [] OTHER -> <<110, 117, 108, 108>>

\* map[key] = value on an object kept as its properties in insertion order
MapStore(pairs, key, value) ==
    LET name == PropertyKey(key)
    IN  IF \E i \in 1..Len(pairs) : pairs[i].name = name
        THEN [i \in 1..Len(pairs) |->
                 IF pairs[i].name = name THEN [name |-> name, value |-> value] ELSE pairs[i]]
        ELSE Append(pairs, [name |-> name, value |-> value])

\* a variant of ArrayStore: array.unshift(value)
ArrayStore_Unshift(array, position, value) == <<value>> \o array

\* array[position] = value on an array kept as its assigned prefix (an index
\* past the prefix leaves holes, which read as undefined)
ArrayStore(array, position, value) ==
    IF position < Len(array)
    THEN [array EXCEPT ![position + 1] = value]
    ELSE array \o [i \in 1..(position - Len(array)) |-> Undefined] \o <<value>>

(***************************************************************************)
(* The decoder's configuration: constructor parameters and their defaults. *)
(***************************************************************************)
Param(opt) == IF opt.given THEN Limit(opt.value) ELSE UINT32_MAX

maxStrLength == Param(options.maxStrLength)
maxBinLength == Param(options.maxBinLength)
maxArrayLength == Param(options.maxArrayLength)
maxMapLength == Param(options.maxMapLength)
maxExtLength == Param(options.maxExtLength)

\* byteLength of the scratch buffer a new StreamDecoder starts with
InitialCapacity(opts) == DEFAULT_INITIAL_BUFFER_SIZE

(***************************************************************************)
(* Frames of the explicit stack.                                           *)
(***************************************************************************)
STATE_ARRAY == "array"
STATE_MAP_KEY == "map_key"
STATE_MAP_VALUE == "map_value"

\* a variant of MapFrame: the frame starts in the awaiting-value phase
MapFrame_ValueFirst(n) ==
    [type |-> STATE_MAP_VALUE, size |-> n, key |-> Nil, readCount |-> 0, map |-> <<>>]
MapFrame(n) == [type |-> STATE_MAP_KEY, size |-> n, key |-> Nil, readCount |-> 0, map |-> <<>>]
ArrayFrame(n) == [type |-> STATE_ARRAY, size |-> n, array |-> <<>>, position |-> 0]

Top(stk) == stk[Len(stk)]
\* a variant of Pop: two frames leave the stack
Pop_Two(stk) == SubSeq(stk, 1, Max(Len(stk) - 2, 0))
Pop(stk) == SubSeq(stk, 1, Len(stk) - 1)
SetTop(stk, f) == [stk EXCEPT ![Len(stk)] = f]

(***************************************************************************)
(* Errors.  MORE_DATA is the one instance of DataViewIndexOutOfBoundsError *)
(* (RangeError on every engine but IE11); everything else the decoder      *)
(* throws is a DecodeError.                                                *)
(***************************************************************************)
NoOutcome == [status |-> "none", class |-> "", message |-> "", value |-> Undefined]
DecodeError(msg) == [status |-> "thrown", class |-> "DecodeError", message |-> msg,
                     value |-> Undefined]
\* a variant of MORE_DATA: the read loop throws a DecodeError
MORE_DATA_AsDecodeError == DecodeError("Insufficient data")
MORE_DATA == [status |-> "thrown", class |-> "RangeError", message |-> "Insufficient data",
              value |-> Undefined]
Returned(v) == [status |-> "value", class |-> "", message |-> "", value |-> v]
Finished == [status |-> "done", class |-> "", message |-> "", value |-> Undefined]

NoRead == [length |-> 0, pos |-> 0]

\* a variant of Throw: the generator outlives the exception
Throw_KeepGenerator(err) ==
    /\ pc' = "idle"
    /\ outcome' = err
    /\ gen' = gen
    /\ rd' = NoRead
    /\ ret' = ""

\* an exception leaves doDecodeSync (and ends the generator, if it runs in one)
Throw(err) ==
    /\ pc' = "idle"
    /\ outcome' = err
    /\ gen' = IF mode = "multi" THEN "done" ELSE gen
    /\ rd' = NoRead
    /\ ret' = ""

\* the locals of doDecodeSync after a step: they die with the activation
Locals(sz, type, obj) ==
    /\ size' = IF pc' = "idle" THEN 0 ELSE sz
    /\ extType' = IF pc' = "idle" THEN 0 ELSE type
    /\ object' = IF pc' = "idle" THEN Undefined ELSE obj

(***************************************************************************)
(* readBytes: lines 490-518.                                               *)
(***************************************************************************)
\* the byteLength of the view after ensureBufferSizeToWrite(sizeToWrite)
ensureBufferSizeToWrite(byteLength, sizeToWrite) ==
    IF byteLength < sizeToWrite THEN byteLength * 2 ELSE byteLength

\* length of bytes.subarray(begin, end) on a buffer of byteLength bytes
SubarrayLength(byteLength, begin, end) ==
    Max(Min(end, byteLength) - Min(begin, byteLength), 0)

\* readBytes(length) up to the first test of its loop; `why` is the caller
ReadBytes(length, why) ==
    LET newCap == ensureBufferSizeToWrite(cap, length)
    IN  /\ cap' = newCap
        /\ IF newCap # cap
           THEN /\ heap' = Append(heap, <<>>)     \* resizeBuffer: a fresh ArrayBuffer
                /\ cur' = Len(heap) + 1
           ELSE UNCHANGED <<heap, cur>>
        /\ rd' = [length |-> length, pos |-> 0]
        /\ ret' = why
        /\ pc' = "read"

\* the loop of readBytes has ended and readBytes returns to caller `why`
ReadReturns(why) == pc = "read" /\ ret = why /\ ~(rd.pos < rd.length)

\* what readBytes returns: this.bytes.subarray(0, length)
ReadResult == View(cur, SubarrayLength(cap, 0, rd.length))

\* the bytes a view shows now
Contents(h, view) == [i \in 1..view.len |-> ByteAt(h[view.buf], i - 1)]

\* the counts a pull may return when `want` bytes fit the destination and the
\* source holds `have` more: nothing yet (0), or some of what it holds
SourceReturns(want, have) ==
    LET most == Min(want, have)
    IN  {0} \cup { n \in 1..most :
                     \/ n = most
                     \/ want <= MaxFineRead /\ n <= MaxChunk
                     \/ want > MaxFineRead /\ n = (most + 1) \div 2 }

(***************************************************************************)
(* The extension registry (ExtensionCodec.decode): type codes with a       *)
(* registered decode function, which here keeps the payload it is handed.  *)
(***************************************************************************)
RegisteredExtTypes == {1}

ExtensionDecode(data, type) ==
    IF type \in RegisteredExtTypes
    THEN Returned(ExtData(type, data))
    ELSE DecodeError("Unrecognized extension type")

(***************************************************************************)
(* Inputs and options.                                                     *)
(***************************************************************************)
\* generated inputs: every byte string over these bytes up to MaxInputLen.  The
\* bytes serve as headers (1, fixmap of 1, fixarray of 2, fixstr of 1, nil, the
\* unassigned 0xc1, bin 8) and as lengths, type codes and payload.
Alphabet == {\h01, \h81, \h92, \ha1, \hc0, \hc1, \hc4}

RECURSIVE SeqsUpTo(_, _)
SeqsUpTo(S, n) ==
    IF n = 0 THEN {<<>>}
    ELSE LET shorter == SeqsUpTo(S, n - 1)
         IN  shorter \cup { Append(s, b) : s \in { t \in shorter : Len(t) = n - 1 }, b \in S }

\* "__proto__" as a fixstr
ProtoBytes == <<\ha9, \h5f, \h5f, \h70, \h72, \h6f, \h74, \h6f, \h5f, \h5f>>

\* a bin 16 of n bytes
BigBin(n) == <<\hc5, n \div 256, n % 256>> \o [i \in 1..n |-> 1 + (i % 7)]

\* one message per format family, and the cases the decoder treats specially
Messages ==
    { <<\h81, \ha1, \h61, \h01>>,                     \* {"a": 1}
      <<\h93, \h01, \h02, \h03>>,                     \* [1, 2, 3]
      <<\h81>> \o ProtoBytes \o <<\h01>>,             \* {"__proto__": 1}
      <<\h91, \h81>> \o ProtoBytes \o <<\hc0>>,       \* [{"__proto__": nil}]
      <<\h82, \h01, \hc0>> \o ProtoBytes \o <<\h01>>, \* {1: nil, "__proto__": 1}
      <<\h92, \hc4, \h01, \h05, \h01>>,               \* [bin(05), 1]
      <<\h92, \hd4, \h01, \h05, \hc0>>,               \* [ext(1, 05), nil]
      <<\hc4, \h02, \h05, \h06, \hc3, \hc2>>,         \* bin(05 06), true, false
      <<\hcc, \hff>>, <<\hcd, \h01, \h00>>, <<\hce, \h00, \h01, \h00, \h00>>,
      <<\hcf, \h00, \h00, \h00, \h00, \h00, \h00, \h00, \h01>>,
      <<\hd0, \hff>>, <<\hd1, \hff, \hfe>>, <<\hd2, \hff, \hff, \hff, \hfe>>,
      <<\hd3, \hff, \hff, \hff, \hff, \hff, \hff, \hff, \hff>>,
      <<\hca, \h3f, \h80, \h00, \h00>>,
      <<\hcb, \h3f, \hf0, \h00, \h00, \h00, \h00, \h00, \h00>>,
      <<\hff, \he0, \h7f>>,                           \* -1, -32, 127
      <<\h81, \hca, \h3f, \hc0, \h00, \h00, \h01>>,   \* {1.5: 1}
      <<\h81, \hd0, \hff, \h01>>,                     \* {-1: 1}
      <<\h82, \h01, \hc2, \h01, \hc3>>,               \* {1: false, 1: true}
      <<\h81, \hc3, \h01>>,                           \* a boolean key
      <<\h81, \hc3, \h81, \hca, \h3f, \hc0, \h00, \h00, \h01>>, \* the same, then {1.5: 1}
      <<\h81, \hc4, \h01, \h05, \h01>>,               \* a binary key
      <<\h81, \h90, \h01>>, <<\h81, \h91, \h01, \h01>>, \* array keys
      <<\h81, \h80, \h01>>,                           \* a map key
      <<\h81, \hd4, \h01, \h05, \h01>>,               \* an extension key
      <<\hd4, \h01, \h05>>, <<\hd4, \h02, \h05>>,     \* fixext 1, type 1 and type 2
      <<\hd5, \h01, \h05, \h06>>,                     \* fixext 2
      <<\hd6, \h01, \h05, \h06, \h07, \h08>>,         \* fixext 4
      <<\hc7, \h02, \h01, \h05, \h06>>,               \* ext 8
      <<\hc8, \h00, \h01, \h01, \h05>>,               \* ext 16
      <<\hc9, \h00, \h00, \h00, \h01, \h01, \h05>>,   \* ext 32
      <<\hc7, \h00, \h01>>,                           \* ext 8 of no bytes
      <<\hd9, \h02, \h61, \h62>>, <<\hda, \h00, \h01, \h61>>,
      <<\hdb, \h00, \h00, \h00, \h01, \h61>>,         \* str 8 / 16 / 32
      <<\ha0>>, <<\ha2, \h61, \hc3>>,                 \* "" and "a" + an invalid byte
      <<\hc4, \h00>>, <<\hc5, \h00, \h01, \h05>>,
      <<\hc6, \h00, \h00, \h00, \h02, \h05, \h06>>,   \* bin 8 / 16 / 32
      <<\hdc, \h00, \h02, \h01, \hc0>>, <<\hdd, \h00, \h00, \h00, \h01, \h01>>,
      <<\hdc, \h00, \h00>>,                           \* array 16 / 32
      <<\hde, \h00, \h02, \h01, \hc0, \h02, \hc0>>,
      <<\hdf, \h00, \h00, \h00, \h01, \h01, \h01>>,
      <<\hde, \h00, \h00>>,                           \* map 16 / 32
      <<\h82, \ha1, \h61, \h91, \h01, \ha1, \h62, \h80>>, \* {"a": [1], "b": {}}
      <<\h92, \h92, \h01, \h02, \h91, \h90>>,         \* [[1, 2], [[]]]
      BigBin(DEFAULT_INITIAL_BUFFER_SIZE + 1) \o <<\h01>>,      \* grows the buffer once
      BigBin(2 * DEFAULT_INITIAL_BUFFER_SIZE + 1) \o <<\h01>> } \* needs two doublings

\* every header byte on its own
AllHeaders == { <<b>> : b \in 0..255 }

Inputs == SeqsUpTo(Alphabet, MaxInputLen) \cup Messages \cup AllHeaders

DefaultOptions ==
    [maxStrLength |-> UNDEFINED, maxBinLength |-> UNDEFINED, maxArrayLength |-> UNDEFINED,
     maxMapLength |-> UNDEFINED, maxExtLength |-> UNDEFINED, streamBufferSize |-> UNDEFINED]

\* the option objects a caller passes: none, every limit small, only the binary
\* limit small, and a chosen stream buffer size
OptionSets ==
    { DefaultOptions,
      [DefaultOptions EXCEPT !.maxStrLength = Given(SmallLimit), !.maxBinLength = Given(SmallLimit),
                             !.maxArrayLength = Given(SmallLimit), !.maxMapLength = Given(SmallLimit),
                             !.maxExtLength = Given(SmallLimit)],
      [DefaultOptions EXCEPT !.maxBinLength = Given(SmallLimit)],
      [DefaultOptions EXCEPT !.streamBufferSize = Given(2 * DEFAULT_INITIAL_BUFFER_SIZE)] }

\* no call of encode() is under way
NoEncode == [maxDepth |-> UNDEFINED, levels |-> 0, pc |-> "idle", limit |-> 0, depth |-> 0,
             outcome |-> "none"]

(***************************************************************************)
(* Init: decodeStream has built the decoder (decode.ts 105-114, the field  *)
(* initialisers of lines 61-64); no entry point has run yet.               *)
(***************************************************************************)
NoPull == [want |-> 0, have |-> 0, got |-> 0]
NoMark == [depth |-> 0, cap |-> 0, consumed |-> 0]

Init ==
    /\ input \in Inputs
    /\ options \in OptionSets
    /\ options = DefaultOptions \/ input \in Messages
    /\ consumed = 0
    /\ headByte = HEAD_BYTE_REQUIRED
    /\ stack = <<>>
    /\ cap = InitialCapacity(options)
    /\ cur = 1
    /\ heap = <<(<<>>)>>
    /\ pc = "idle"
    /\ ret = ""
    /\ rd = NoRead
    /\ size = 0
    /\ extType = 0
    /\ object = Undefined
    /\ mode = "single"
    /\ gen = "none"
    /\ calls = 0
    /\ outcome = NoOutcome
    /\ out = <<>>
    /\ hist = [lastPull |-> NoPull, mark |-> NoMark, start |-> 0, origin |-> -1,
               genStart |-> -1, mixed |-> FALSE]
    /\ enc = NoEncode

(***************************************************************************)
(* Entry points.                                                           *)
(***************************************************************************)
\* reinitializeState, lines 79-84
reinitializeState ==
    /\ headByte' = HEAD_BYTE_REQUIRED
    /\ stack' = <<>>

\* history: where the value began whose decode the latest call left unfinished
\* for want of data (-1: the latest call did not end that way)
Origin ==
    IF outcome.class = "RangeError"
    THEN (IF hist.origin >= 0 THEN hist.origin ELSE hist.start)
    ELSE -1

\* decode(), lines 94-98
Decode ==
    /\ pc = "idle"
    /\ calls < MaxCalls
    /\ calls' = calls + 1
    /\ reinitializeState
    /\ mode' = "single"
    /\ pc' = "loop"
    /\ outcome' = NoOutcome
    /\ hist' = [hist EXCEPT !.start = consumed,
                            !.origin = Origin,
                            !.mixed = @ \/ gen # "none"]
    /\ UNCHANGED <<enc, input, consumed, options, cap, cur, heap, ret, rd, size, extType,
                   object, gen, out>>

\* next() on the generator of decodeMulti(), lines 100-106: the first next()
\* runs reinitializeState, each later one re-enters the while loop
GeneratorNext ==
    /\ pc = "idle"
    /\ calls < MaxCalls
    /\ calls' = calls + 1
    /\ mode' = "multi"
    /\ \/ /\ gen = "none"
          /\ reinitializeState
          /\ gen' = "running"
          /\ pc' = "loop"
          /\ outcome' = NoOutcome
       \/ /\ gen = "suspended"
          /\ gen' = "running"
          /\ pc' = "loop"
          /\ outcome' = NoOutcome
          /\ UNCHANGED <<headByte, stack>>
       \/ /\ gen = "done"
          /\ outcome' = Finished
          /\ UNCHANGED <<headByte, stack, gen, pc>>
    /\ hist' = [hist EXCEPT !.start = consumed,
                            !.origin = Origin,
                            !.genStart = IF gen = "none" THEN consumed ELSE @]
    /\ UNCHANGED <<enc, input, consumed, options, cap, cur, heap, ret, rd, size, extType,
                   object, out>>

(***************************************************************************)
(* readHeadByte and the read loop.                                         *)
(***************************************************************************)
\* readHeadByte, lines 326-333, up to the read it starts
ReadHeadByte ==
    /\ pc = "loop"
    /\ IF headByte = HEAD_BYTE_REQUIRED
       THEN ReadBytes(1, "head")
       ELSE /\ pc' = "dispatch"
            /\ UNCHANGED <<cap, cur, heap, rd, ret>>
    /\ UNCHANGED <<enc, input, consumed, options, headByte, stack, size, extType, object,
                   mode, gen, calls, outcome, out, hist>>

\* a variant of Pull: a count <= 0 makes the loop ask again instead of throwing
Pull_AskAgain ==
    /\ pc = "read"
    /\ rd.pos < rd.length
    /\ LET want == SubarrayLength(cap, rd.pos, rd.length)
           have == Len(input) - consumed
       IN  \E read \in SourceReturns(want, have) :
             /\ hist' = [hist EXCEPT !.lastPull = [want |-> want, have |-> have, got |-> read]]
             /\ heap' = [heap EXCEPT ![cur] =
                            WriteAt(@, rd.pos, SubSeq(input, consumed + 1, consumed + read))]
             /\ consumed' = consumed + read
             /\ rd' = [rd EXCEPT !.pos = @ + read]
             /\ UNCHANGED <<pc, ret, size, extType, object, outcome, gen>>
    /\ UNCHANGED <<enc, input, options, headByte, stack, cap, cur, mode, calls, out>>

\* one turn of the loop of readBytes, lines 494-500
Pull ==
    /\ pc = "read"
    /\ rd.pos < rd.length
    /\ LET want == SubarrayLength(cap, rd.pos, rd.length)
           have == Len(input) - consumed
       IN  \E read \in SourceReturns(want, have) :
             /\ hist' = [hist EXCEPT !.lastPull = [want |-> want, have |-> have, got |-> read]]
             /\ IF read <= 0
                THEN /\ Throw(MORE_DATA)
                     /\ Locals(0, 0, Undefined)
                     /\ UNCHANGED <<consumed, heap>>
                ELSE /\ heap' = [heap EXCEPT ![cur] =
                                    WriteAt(@, rd.pos, SubSeq(input, consumed + 1, consumed + read))]
                     /\ consumed' = consumed + read
                     /\ rd' = [rd EXCEPT !.pos = @ + read]
                     /\ UNCHANGED <<pc, ret, size, extType, object, outcome, gen>>
    /\ UNCHANGED <<enc, input, options, headByte, stack, cap, cur, mode, calls, out>>

\* readU8 returns into readHeadByte, lines 328 and 430-434
HeadByteRead ==
    /\ ReadReturns("head")
    /\ headByte' = getUint8(heap[cur])
    /\ pc' = "dispatch"
    /\ rd' = NoRead
    /\ ret' = ""
    /\ hist' = [hist EXCEPT !.mark = [depth |-> Len(stack), cap |-> cap, consumed |-> consumed]]
    /\ UNCHANGED <<enc, input, consumed, options, stack, cap, cur, heap, size, extType, object,
                   mode, gen, calls, outcome, out>>

(***************************************************************************)
(* Header dispatch of doDecodeSync, lines 113-277.                         *)
(***************************************************************************)
\* pushMapState, lines 357-369: the stack after it, or the error it throws
pushMapState(stk, n) ==
    IF Exceeds(n, maxMapLength)
    THEN [ok |-> FALSE, stack |-> stk, error |-> DecodeError("Max length exceeded: map length")]
    ELSE [ok |-> TRUE, stack |-> Append(stk, MapFrame(n)), error |-> NoOutcome]

\* a variant of pushArrayState: the frame is pushed before the length is tested
pushArrayState_PushFirst(stk, n) ==
    IF Exceeds(n, maxArrayLength)
    THEN [ok |-> FALSE, stack |-> Append(stk, ArrayFrame(n)),
          error |-> DecodeError("Max length exceeded: array length")]
    ELSE [ok |-> TRUE, stack |-> Append(stk, ArrayFrame(n)), error |-> NoOutcome]

\* pushArrayState, lines 371-382
pushArrayState(stk, n) ==
    IF Exceeds(n, maxArrayLength)
    THEN [ok |-> FALSE, stack |-> stk, error |-> DecodeError("Max length exceeded: array length")]
    ELSE [ok |-> TRUE, stack |-> Append(stk, ArrayFrame(n)), error |-> NoOutcome]

\* a container header of declared size n: lines 122-129 and its seven siblings
EnterContainer(isMap, n) ==
    LET pushed == IF isMap THEN pushMapState(stack, n) ELSE pushArrayState(stack, n)
    IN  IF n # 0
        THEN /\ stack' = pushed.stack
             /\ IF pushed.ok
                THEN /\ headByte' = HEAD_BYTE_REQUIRED        \* complete()
                     /\ pc' = "loop"                          \* continue DECODE
                     /\ rd' = NoRead
                     /\ ret' = ""
                     /\ UNCHANGED <<outcome, gen>>
                ELSE /\ Throw(pushed.error)
                     /\ UNCHANGED headByte
             /\ Locals(0, 0, Undefined)
        ELSE /\ pc' = "complete"
             /\ rd' = NoRead
             /\ ret' = ""
             /\ Locals(0, 0, IF isMap THEN Obj(<<>>) ELSE Arr(<<>>))
             /\ UNCHANGED <<stack, headByte, outcome, gen>>

\* decodeUtf8String, lines 384-391, up to the read it starts
decodeUtf8String(byteLength) ==
    IF Exceeds(byteLength, maxStrLength)
    THEN /\ Throw(DecodeError("Max length exceeded: UTF-8 byte length"))
         /\ UNCHANGED <<cap, cur, heap>>
    ELSE /\ ReadBytes(byteLength, "str")
         /\ UNCHANGED <<outcome, gen>>

\* a variant of decodeBinary: the length of an extension payload is not tested
decodeBinary_BinOnly(byteLength, why) ==
    IF why = "bin" /\ Exceeds(byteLength, maxBinLength)
    THEN /\ Throw(DecodeError("Max length exceeded: bin length"))
         /\ UNCHANGED <<cap, cur, heap>>
    ELSE /\ ReadBytes(byteLength, why)
         /\ UNCHANGED <<outcome, gen>>

\* decodeBinary, lines 411-416, up to the read it starts
decodeBinary(byteLength, why) ==
    IF Exceeds(byteLength, maxBinLength)
    THEN /\ Throw(DecodeError("Max length exceeded: bin length"))
         /\ UNCHANGED <<cap, cur, heap>>
    ELSE /\ ReadBytes(byteLength, why)
         /\ UNCHANGED <<outcome, gen>>

\* decodeExtension, lines 420-425, up to the read of the type code
decodeExtension(n) ==
    IF Exceeds(n, maxExtLength)
    THEN /\ Throw(DecodeError("Max length exceeded: ext length"))
         /\ UNCHANGED <<cap, cur, heap>>
    ELSE /\ ReadBytes(1, "exttype")
         /\ UNCHANGED <<outcome, gen>>

\* a variant of IsFixint: the bound of the positive range is off by one
IsFixint_OffByOne(h) == h >= \he0 \/ h <= \h80

IsFixint(h) == h >= \he0 \/ h < \h80
IsFixmap(h) == h >= \h80 /\ h < \h90
IsFixarray(h) == h >= \h90 /\ h < \ha0
IsFixstr(h) == h >= \ha0 /\ h < \hc0
IsConstant(h) == h \in {\hc0, \hc2, \hc3}
IsNumber(h) == h \in {\hca, \hcb, \hcc, \hcd, \hce, \hcf, \hd0, \hd1, \hd2, \hd3}
IsStrN(h) == h \in {\hd9, \hda, \hdb}
IsArrayN(h) == h \in {\hdc, \hdd}
IsMapN(h) == h \in {\hde, \hdf}
IsBinN(h) == h \in {\hc4, \hc5, \hc6}
IsExtN(h) == h \in {\hc7, \hc8, \hc9}
IsFixext(h) == h \in {\hd4, \hd5, \hd6, \hd7, \hd8}
HasLength(h) == IsStrN(h) \/ IsArrayN(h) \/ IsMapN(h) \/ IsBinN(h) \/ IsExtN(h)
IsRecognized(h) ==
    \/ IsFixint(h) \/ IsFixmap(h) \/ IsFixarray(h) \/ IsFixstr(h) \/ IsConstant(h)
    \/ IsNumber(h) \/ HasLength(h) \/ IsFixext(h)

\* bytes of the number that follows header h (readF32 .. readI64)
NumberWidth(h) ==
    CASE h \in {\hcc, \hd0} -> 1
      [] h \in {\hcd, \hd1} -> 2
      [] h \in {\hca, \hce, \hd2} -> 4
      [] OTHER -> 8

\* bytes of the length field that follows header h (readU8 / readU16 / readU32)
LengthWidth(h) ==
    CASE h \in {\hd9, \hc4, \hc7} -> 1
      [] h \in {\hda, \hdc, \hde, \hc5, \hc8} -> 2
      [] OTHER -> 4

\* payload size of fixext header h
FixextSize(h) ==
    CASE h = \hd4 -> 1 [] h = \hd5 -> 2 [] h = \hd6 -> 4 [] h = \hd7 -> 8 [] OTHER -> 16

\* lines 113-119: negative and positive fixint
DecodeFixint ==
    /\ pc = "dispatch"
    /\ IsFixint(headByte)
    /\ pc' = "complete"
    /\ Locals(0, 0, IF headByte >= \he0 THEN Integer(headByte - \h100) ELSE Integer(headByte))
    /\ UNCHANGED <<enc, input, consumed, options, headByte, stack, cap, cur, heap, ret, rd,
                   mode, gen, calls, outcome, out, hist>>

\* lines 120-139: fixmap and fixarray
DecodeFixContainer ==
    /\ pc = "dispatch"
    /\ IsFixmap(headByte) \/ IsFixarray(headByte)
    /\ IF IsFixmap(headByte)
       THEN EnterContainer(TRUE, headByte - \h80)
       ELSE EnterContainer(FALSE, headByte - \h90)
    /\ UNCHANGED <<enc, input, consumed, options, cap, cur, heap, mode, calls, out, hist>>

\* lines 140-144: fixstr
DecodeFixstr ==
    /\ pc = "dispatch"
    /\ IsFixstr(headByte)
    /\ decodeUtf8String(headByte - \ha0)
    /\ Locals(0, 0, Undefined)
    /\ UNCHANGED <<enc, input, consumed, options, headByte, stack, mode, calls, out, hist>>

\* lines 145-153: nil, false, true
DecodeConstant ==
    /\ pc = "dispatch"
    /\ IsConstant(headByte)
    /\ pc' = "complete"
    /\ Locals(0, 0, IF headByte = \hc0 THEN Nil ELSE Bool(headByte = \hc3))
    /\ UNCHANGED <<enc, input, consumed, options, headByte, stack, cap, cur, heap, ret, rd,
                   mode, gen, calls, outcome, out, hist>>

\* lines 154-183: float 32/64, uint 8..64, int 8..64, up to the read
DecodeNumber ==
    /\ pc = "dispatch"
    /\ IsNumber(headByte)
    /\ ReadBytes(NumberWidth(headByte), "num")
    /\ Locals(0, 0, Undefined)
    /\ UNCHANGED <<enc, input, consumed, options, headByte, stack, mode, gen, calls, outcome,
                   out, hist>>

\* lines 184-247 and 263-274: str, array, map, bin, ext 8/16/32, up to the
\* read of the length field
DecodeLength ==
    /\ pc = "dispatch"
    /\ HasLength(headByte)
    /\ ReadBytes(LengthWidth(headByte), "len")
    /\ Locals(0, 0, Undefined)
    /\ UNCHANGED <<enc, input, consumed, options, headByte, stack, mode, gen, calls, outcome,
                   out, hist>>

\* lines 248-262: fixext 1/2/4/8/16
DecodeFixext ==
    /\ pc = "dispatch"
    /\ IsFixext(headByte)
    /\ decodeExtension(FixextSize(headByte))
    /\ Locals(FixextSize(headByte), 0, Undefined)
    /\ UNCHANGED <<enc, input, consumed, options, headByte, stack, mode, calls, out, hist>>

\* lines 275-277
DecodeUnrecognized ==
    /\ pc = "dispatch"
    /\ ~IsRecognized(headByte)
    /\ Throw(DecodeError("Unrecognized type byte"))
    /\ Locals(0, 0, Undefined)
    /\ UNCHANGED <<enc, input, consumed, options, headByte, stack, cap, cur, heap, mode, calls,
                   out, hist>>

(***************************************************************************)
(* What follows each read.                                                 *)
(***************************************************************************)
\* the number readF32 .. readI64 make of the bytes at the start of the view;
\* floats and 64-bit integers are kept as their bytes
NumberValue(h, data) ==
    CASE h = \hca -> Num("f32", [i \in 1..4 |-> ByteAt(data, i - 1)])
      [] h = \hcb -> Num("f64", [i \in 1..8 |-> ByteAt(data, i - 1)])
      [] h = \hcc -> Integer(getUint8(data))
      [] h = \hcd -> Integer(getUint16(data))
      [] h = \hce -> Integer(getUint32(data))
      [] h = \hcf -> Num("u64", [i \in 1..8 |-> ByteAt(data, i - 1)])
      [] h = \hd0 -> Integer(getInt8(data))
      [] h = \hd1 -> Integer(getInt16(data))
      [] h = \hd2 -> Integer(getInt32(data))
      [] OTHER -> Num("i64", [i \in 1..8 |-> ByteAt(data, i - 1)])

\* the declared length readU8 / readU16 / readU32 make of the length field
LengthValue(h, data) ==
    CASE LengthWidth(h) = 1 -> getUint8(data)
      [] LengthWidth(h) = 2 -> getUint16(data)
      [] OTHER -> getUint32(data)

\* lines 156-183 after the read
NumberRead ==
    /\ ReadReturns("num")
    /\ pc' = "complete"
    /\ rd' = NoRead
    /\ ret' = ""
    /\ Locals(0, 0, NumberValue(headByte, heap[cur]))
    /\ UNCHANGED <<enc, input, consumed, options, headByte, stack, cap, cur, heap, mode, gen,
                   calls, outcome, out, hist>>

\* lines 186-247 and 265-274 after the read of the length field
LengthRead ==
    /\ ReadReturns("len")
    /\ LET n == LengthValue(headByte, heap[cur])
       IN  \/ /\ IsStrN(headByte)
              /\ decodeUtf8String(n)
              /\ Locals(0, 0, Undefined)
              /\ UNCHANGED <<stack, headByte>>
           \/ /\ IsBinN(headByte)
              /\ decodeBinary(n, "bin")
              /\ Locals(0, 0, Undefined)
              /\ UNCHANGED <<stack, headByte>>
           \/ /\ IsExtN(headByte)
              /\ decodeExtension(n)
              /\ Locals(n, 0, Undefined)
              /\ UNCHANGED <<stack, headByte>>
           \/ /\ IsArrayN(headByte) \/ IsMapN(headByte)
              /\ EnterContainer(IsMapN(headByte), n)
              /\ UNCHANGED <<cap, cur, heap>>
    /\ UNCHANGED <<enc, input, consumed, options, mode, calls, out, hist>>

\* decodeExtension, lines 425-426, after the read of the type code
ExtTypeRead ==
    /\ ReadReturns("exttype")
    /\ decodeBinary(size, "extdata")
    /\ Locals(size, getInt8(heap[cur]), Undefined)
    /\ UNCHANGED <<enc, input, consumed, options, headByte, stack, mode, calls, out, hist>>

\* decodeUtf8String, lines 391-400, after the read (the three decoding routes
\* differ in speed, not in result)
StringRead ==
    /\ ReadReturns("str")
    /\ pc' = "complete"
    /\ rd' = NoRead
    /\ ret' = ""
    /\ Locals(0, 0, Str(utf8Decode(Contents(heap, ReadResult))))
    /\ UNCHANGED <<enc, input, consumed, options, headByte, stack, cap, cur, heap, mode, gen,
                   calls, outcome, out, hist>>

\* decodeBinary, lines 416-417, after the read
BinaryRead ==
    /\ ReadReturns("bin")
    /\ pc' = "complete"
    /\ rd' = NoRead
    /\ ret' = ""
    /\ Locals(0, 0, ReadResult)
    /\ UNCHANGED <<enc, input, consumed, options, headByte, stack, cap, cur, heap, mode, gen,
                   calls, outcome, out, hist>>

\* decodeExtension, line 427
ExtensionRead ==
    /\ ReadReturns("extdata")
    /\ LET r == ExtensionDecode(ReadResult, extType)
       IN  IF r.status = "value"
           THEN /\ pc' = "complete"
                /\ rd' = NoRead
                /\ ret' = ""
                /\ Locals(0, 0, r.value)
                /\ UNCHANGED <<outcome, gen>>
           ELSE /\ Throw(r)
                /\ Locals(0, 0, Undefined)
    /\ UNCHANGED <<enc, input, consumed, options, headByte, stack, cap, cur, heap, mode, calls,
                   out, hist>>

(***************************************************************************)
(* Completion, lines 279-322.                                              *)
(***************************************************************************)
\* the while loop of lines 282-320 on a stack and a completed object: how it
\* leaves the stack, and whether it continues DECODE, throws or falls through
\* to the return of line 322
RECURSIVE Propagate(_, _)
Propagate(stk, obj) ==
    IF Len(stk) = 0
    THEN [next |-> "return", stack |-> stk, object |-> obj, error |-> NoOutcome]
    ELSE LET state == Top(stk)
         IN  IF state.type = STATE_ARRAY
             THEN LET stored == [state EXCEPT !.array = ArrayStore(@, state.position, obj),
                                              !.position = @ + 1]
                  IN  IF stored.position = stored.size
                      THEN Propagate(Pop(stk), Arr(stored.array))
                      ELSE [next |-> "continue", stack |-> SetTop(stk, stored),
                            object |-> Undefined, error |-> NoOutcome]
             ELSE IF state.type = STATE_MAP_KEY
             THEN IF ~isValidMapKeyType(obj)
                  THEN [next |-> "throw", stack |-> stk, object |-> Undefined,
                        error |-> DecodeError("The type of key must be string or number")]
                  ELSE IF isProtoKey(obj)
                  THEN [next |-> "throw", stack |-> stk, object |-> Undefined,
                        error |-> DecodeError("The key __proto__ is not allowed")]
                  ELSE [next |-> "continue",
                        stack |-> SetTop(stk, [state EXCEPT !.key = obj, !.type = STATE_MAP_VALUE]),
                        object |-> Undefined, error |-> NoOutcome]
             ELSE LET stored == [state EXCEPT !.map = MapStore(@, state.key, obj),
                                              !.readCount = @ + 1]
                  IN  IF stored.readCount = stored.size
                      THEN Propagate(Pop(stk), Obj(stored.map))
                      ELSE [next |-> "continue",
                            stack |-> SetTop(stk, [stored EXCEPT !.key = Nil, !.type = STATE_MAP_KEY]),
                            object |-> Undefined, error |-> NoOutcome]

\* a value with every Uint8Array in it replaced by the bytes it shows in heap h
RECURSIVE Resolve(_, _)
Resolve(h, v) ==
    CASE v.k = "bin" -> [k |-> "bin", bytes |-> Contents(h, v)]
      [] v.k = "ext" -> ExtData(v.type, Resolve(h, v.data))
      [] v.k = "arr" -> Arr([i \in 1..Len(v.items) |-> Resolve(h, v.items[i])])
      [] v.k = "map" -> Obj([i \in 1..Len(v.pairs) |->
                               [name |-> v.pairs[i].name, value |-> Resolve(h, v.pairs[i].value)]])
      [] OTHER -> v

\* complete() of line 279, the propagation, and the return of line 322 (in the
\* generator: the yield of line 104)
Complete ==
    /\ pc = "complete"
    /\ headByte' = HEAD_BYTE_REQUIRED
    /\ LET p == Propagate(stack, object)
       IN  /\ stack' = p.stack
           /\ \/ /\ p.next = "continue"
                 /\ pc' = "loop"
                 /\ UNCHANGED <<outcome, gen, out>>
              \/ /\ p.next = "throw"
                 /\ Throw(p.error)
                 /\ UNCHANGED out
              \/ /\ p.next = "return"
                 /\ pc' = "idle"
                 /\ outcome' = Returned(p.object)
                 /\ gen' = IF mode = "multi" THEN "suspended" ELSE gen
                 /\ out' = IF mode = "multi"
                           THEN Append(out, [value |-> p.object, seen |-> Resolve(heap, p.object)])
                           ELSE out
    /\ rd' = NoRead
    /\ ret' = ""
    /\ Locals(0, 0, Undefined)
    /\ UNCHANGED <<enc, input, consumed, options, cap, cur, heap, mode, calls, hist>>

Next ==
    \/ Decode
    \/ GeneratorNext
    \/ ReadHeadByte
    \/ Pull
    \/ HeadByteRead
    \/ DecodeFixint
    \/ DecodeFixContainer
    \/ DecodeFixstr
    \/ DecodeConstant
    \/ DecodeNumber
    \/ DecodeLength
    \/ DecodeFixext
    \/ DecodeUnrecognized
    \/ NumberRead
    \/ LengthRead
    \/ ExtTypeRead
    \/ StringRead
    \/ BinaryRead
    \/ ExtensionRead
    \/ Complete

Spec == Init /\ [][Next]_vars

\* the steps the decoder takes by itself once an entry point has been called
Running ==
    \/ ReadHeadByte
    \/ Pull
    \/ HeadByteRead
    \/ DecodeFixint
    \/ DecodeFixContainer
    \/ DecodeFixstr
    \/ DecodeConstant
    \/ DecodeNumber
    \/ DecodeLength
    \/ DecodeFixext
    \/ DecodeUnrecognized
    \/ NumberRead
    \/ LengthRead
    \/ ExtTypeRead
    \/ StringRead
    \/ BinaryRead
    \/ ExtensionRead
    \/ Complete

\* a decoder used through decode() alone
NextDecode ==
    \/ Decode
    \/ Running

\* a call that has been entered keeps running: the code is synchronous, and
\* the pull source answers every invocation
SpecLive == Init /\ [][NextDecode]_vars /\ WF_vars(Running)

(***************************************************************************)
(* The buffer-resident decoder (class Decoder), which the specification    *)
(* describes as the same parsing algorithm run over a complete buffer: a   *)
(* value is decoded at offset p of buffer b, and a binary is the slice of  *)
(* b that holds its payload.                                               *)
(***************************************************************************)
RefFail(class) == [status |-> class, value |-> Undefined, next |-> 0]
RefOk(v, p) == [status |-> "value", value |-> v, next |-> p]
Bin(bytes) == [k |-> "bin", bytes |-> bytes]

RefStr(b, p, n) ==
    IF Exceeds(n, maxStrLength) THEN RefFail("DecodeError")
    ELSE IF p + n > Len(b) THEN RefFail("RangeError")
    ELSE RefOk(Str(utf8Decode(SubSeq(b, p + 1, p + n))), p + n)

RefBin(b, p, n) ==
    IF Exceeds(n, maxBinLength) THEN RefFail("DecodeError")
    ELSE IF p + n > Len(b) THEN RefFail("RangeError")
    ELSE RefOk(Bin(SubSeq(b, p + 1, p + n)), p + n)

RefExt(b, p, n) ==
    IF Exceeds(n, maxExtLength) THEN RefFail("DecodeError")
    ELSE IF p + 1 > Len(b) THEN RefFail("RangeError")
    ELSE LET data == RefBin(b, p + 1, n)
             r == ExtensionDecode(data.value, getInt8(<<b[p + 1]>>))
         IN  IF data.status # "value" THEN data
             ELSE IF r.status # "value" THEN RefFail("DecodeError")
             ELSE RefOk(r.value, data.next)

RECURSIVE RefValue(_, _), RefItems(_, _, _, _), RefPairs(_, _, _, _)
RefValue(b, p) ==
    IF p + 1 > Len(b) THEN RefFail("RangeError")
    ELSE LET h == b[p + 1]
             w == IF IsNumber(h) THEN NumberWidth(h) ELSE LengthWidth(h)
             field == SubSeq(b, p + 2, p + 1 + w)
             n == LengthValue(h, field)
         IN  CASE IsFixint(h) ->
                    RefOk(IF h >= \he0 THEN Integer(h - \h100) ELSE Integer(h), p + 1)
               [] IsFixmap(h) ->
                    IF Exceeds(h - \h80, maxMapLength) THEN RefFail("DecodeError")
                    ELSE RefPairs(b, p + 1, h - \h80, <<>>)
               [] IsFixarray(h) ->
                    IF Exceeds(h - \h90, maxArrayLength) THEN RefFail("DecodeError")
                    ELSE RefItems(b, p + 1, h - \h90, <<>>)
               [] IsFixstr(h) -> RefStr(b, p + 1, h - \ha0)
               [] IsConstant(h) -> RefOk(IF h = \hc0 THEN Nil ELSE Bool(h = \hc3), p + 1)
               [] IsFixext(h) -> RefExt(b, p + 1, FixextSize(h))
               [] IsNumber(h) \/ HasLength(h) ->
                    IF p + 1 + w > Len(b) THEN RefFail("RangeError")
                    ELSE CASE IsNumber(h) -> RefOk(NumberValue(h, field), p + 1 + w)
                           [] IsStrN(h) -> RefStr(b, p + 1 + w, n)
                           [] IsBinN(h) -> RefBin(b, p + 1 + w, n)
                           [] IsExtN(h) -> RefExt(b, p + 1 + w, n)
                           [] IsArrayN(h) ->
                                IF Exceeds(n, maxArrayLength) THEN RefFail("DecodeError")
                                ELSE RefItems(b, p + 1 + w, n, <<>>)
                           [] OTHER ->
                                IF Exceeds(n, maxMapLength) THEN RefFail("DecodeError")
                                ELSE RefPairs(b, p + 1 + w, n, <<>>)
               [] OTHER -> RefFail("DecodeError")

RefItems(b, p, n, items) ==
    IF Len(items) = n THEN RefOk(Arr(items), p)
    ELSE LET r == RefValue(b, p)
         IN  IF r.status # "value" THEN r ELSE RefItems(b, r.next, n, Append(items, r.value))

\* `left` pairs are still to be read into `pairs`
RefPairs(b, p, left, pairs) ==
    IF left = 0 THEN RefOk(Obj(pairs), p)
    ELSE LET key == RefValue(b, p)
             value == RefValue(b, key.next)
         IN  IF key.status # "value" THEN key
             ELSE IF ~isValidMapKeyType(key.value) \/ isProtoKey(key.value)
             THEN RefFail("DecodeError")
             ELSE IF value.status # "value" THEN value
             ELSE RefPairs(b, value.next, left - 1, MapStore(pairs, key.value, value.value))

\* the first n successive top-level values of b from offset p on, or fewer:
\* up to the first that does not decode
RECURSIVE RefValues(_, _, _)
RefValues(b, p, n) ==
    LET r == RefValue(b, p)
    IN  IF n = 0 \/ r.status # "value" THEN <<>>
        ELSE <<r.value>> \o RefValues(b, r.next, n - 1)

(***************************************************************************)
(* Properties.                                                             *)
(***************************************************************************)
\* the latest call ended for want of data although the source held bytes and
\* was offered room for them: the source had nothing to give yet
Starved ==
    /\ outcome.class = "RangeError"
    /\ hist.lastPull.want > 0
    /\ hist.lastPull.have > 0

\* the input is exactly one well-formed message
OneMessage == RefValue(input, 0).status = "value" /\ RefValue(input, 0).next = Len(input)

\* C1: for a buffer that holds one valid message, whatever chunks the pull
\* source delivers it in, the first decode() returns the value the
\* buffer-resident decoder returns for the whole buffer.
C1_ChunkIndependence ==
    (/\ calls = 1 /\ mode = "single" /\ pc = "idle"
     /\ OneMessage
     /\ ~Starved)
    => /\ outcome.status = "value"
       /\ Resolve(heap, outcome.value) = RefValue(input, 0).value

\* C2: a read of N bytes runs with a scratch buffer of at least N bytes, and it
\* fails only when the source returns no bytes for a destination that has room.
C2_ReadBytesObtainsN ==
    /\ pc = "read" => cap >= rd.length
    /\ (pc = "idle" /\ outcome.class = "RangeError") => hist.lastPull.want > 0

\* a declared length over the maximum of its kind is about to be acted on
OverLimit ==
    \/ /\ pc = "dispatch"
       /\ \/ IsFixmap(headByte) /\ Exceeds(headByte - \h80, maxMapLength)
          \/ IsFixarray(headByte) /\ Exceeds(headByte - \h90, maxArrayLength)
          \/ IsFixstr(headByte) /\ Exceeds(headByte - \ha0, maxStrLength)
          \/ IsFixext(headByte) /\ Exceeds(FixextSize(headByte), maxExtLength)
    \/ /\ ReadReturns("len")
       /\ LET n == LengthValue(headByte, heap[cur])
          IN  \/ IsStrN(headByte) /\ Exceeds(n, maxStrLength)
              \/ IsBinN(headByte) /\ Exceeds(n, maxBinLength)
              \/ IsArrayN(headByte) /\ Exceeds(n, maxArrayLength)
              \/ IsMapN(headByte) /\ Exceeds(n, maxMapLength)
              \/ IsExtN(headByte) /\ Exceeds(n, maxExtLength)

\* the kind of value a completion offers to the innermost frame it leaves
\* open, and that frame's phase (kind "" and phase "" when it leaves none)
RECURSIVE Offered(_, _)
Offered(stk, kind) ==
    IF Len(stk) = 0 THEN [phase |-> "", kind |-> ""]
    ELSE LET f == Top(stk)
         IN  IF f.type = STATE_ARRAY /\ f.position + 1 = f.size
             THEN Offered(Pop(stk), "arr")
             ELSE IF f.type = STATE_MAP_VALUE /\ f.readCount + 1 = f.size
             THEN Offered(Pop(stk), "map")
             ELSE [phase |-> f.type, kind |-> kind]

\* a completed value of a kind other than `kinds` reaches a map frame that
\* awaits a key
BadKeyOffered(kinds) ==
    /\ pc = "complete"
    /\ Offered(stack, object.k).phase = STATE_MAP_KEY
    /\ Offered(stack, object.k).kind \notin kinds

\* the string "__proto__" reaches a map frame that awaits a key
ProtoKeyOffered ==
    /\ pc = "complete"
    /\ Len(stack) > 0
    /\ Top(stack).type = STATE_MAP_KEY
    /\ object = ProtoKey

\* C3: a pull that returns no bytes ends the decode with the insufficient-data
\* RangeError and nothing else does; an unrecognized header byte, a bad map
\* key and a length over its maximum end it with a DecodeError.
C3_ErrorClasses ==
    [][/\ (pc = "read" /\ rd.pos < rd.length /\ consumed' = consumed)
            => (pc' = "idle" /\ outcome'.class = "RangeError")
       /\ (outcome'.class = "RangeError" /\ outcome.class # "RangeError")
            => (pc = "read" /\ rd.pos < rd.length /\ consumed' = consumed)
       /\ (\/ pc = "dispatch" /\ ~IsRecognized(headByte)
           \/ BadKeyOffered({"str", "int", "num"})
           \/ ProtoKeyOffered
           \/ OverLimit
           \/ ReadReturns("exttype") /\ Exceeds(size, maxBinLength))
            => (pc' = "idle" /\ outcome'.class = "DecodeError")]_vars

\* C3 witness: the source ran dry inside a container, after an earlier call on
\* the same decoder had ended with a DecodeError or a value
C3_Witness ==
    /\ pc = "idle"
    /\ outcome.class = "RangeError"
    /\ hist.lastPull.got = 0
    /\ Len(stack) > 0
    /\ calls > 1

\* C4: re-entering the decoder after it stopped for want of data finds the
\* frame stack (with its pending keys) and the pending head byte as they were,
\* and the value then returned is the value of the bytes from where the
\* interrupted value began.
C4_ResumeAfterSuspension ==
    [][/\ (pc = "idle" /\ outcome.class = "RangeError" /\ consumed < Len(input) /\ pc' = "loop")
            => (stack' = stack /\ headByte' = headByte)
       /\ (pc' = "idle" /\ outcome'.status = "value" /\ hist'.origin >= 0)
            => /\ RefValue(input, hist'.origin).status = "value"
               /\ Resolve(heap', outcome'.value) = RefValue(input, hist'.origin).value]_vars

\* a value holds, at some depth, a map with the property "__proto__"
RECURSIVE HasProto(_)
HasProto(v) ==
    CASE v.k = "map" -> \E i \in 1..Len(v.pairs) :
                           v.pairs[i].name = ProtoKey.s \/ HasProto(v.pairs[i].value)
      [] v.k = "arr" -> \E i \in 1..Len(v.items) : HasProto(v.items[i])
      [] OTHER -> FALSE

\* nothing the decoder holds or has handed out is built from a map with the
\* key "__proto__"
NoProto ==
    /\ \A i \in 1..Len(stack) :
          IF stack[i].type = STATE_ARRAY
          THEN ~HasProto(Arr(stack[i].array))
          ELSE ~HasProto(Obj(stack[i].map)) /\ stack[i].key # ProtoKey
    /\ ~HasProto(object)
    /\ ~HasProto(outcome.value)
    /\ \A i \in 1..Len(out) : ~HasProto(out[i].value)

\* C5: when the string "__proto__" arrives as a map key, at any depth, the
\* decode ends with a DecodeError, and no frame, no returned and no yielded
\* value ever holds a map with that key.
C5_ProtoKeyRejected ==
    [][/\ ProtoKeyOffered => (pc' = "idle" /\ outcome'.class = "DecodeError")
       /\ NoProto']_vars

\* C5 witness: the key was met in a map nested in an array and the decode
\* ended with the error of line 299
C5_Witness ==
    /\ pc = "idle"
    /\ outcome.class = "DecodeError"
    /\ outcome.message = "The key __proto__ is not allowed"
    /\ Len(stack) = 2
    /\ stack[2].type = STATE_MAP_KEY

\* the key of every map frame that awaits a value is of one of `kinds`
KeysAmong(kinds) ==
    \A i \in 1..Len(stack) : stack[i].type = STATE_MAP_VALUE => stack[i].key.k \in kinds

\* a String or an Integer (a 64-bit integer is a number kept as its bytes)
IsStringOrInteger(v) == v.k \in {"str", "int"} \/ (v.k = "num" /\ v.fmt \in {"u64", "i64"})

\* C6 as stated: every accepted map key is a String or an Integer, and a
\* completed value of any other kind offered as a key ends the decode with a
\* DecodeError.
C6_KeysAreStringOrInteger ==
    [][/\ (BadKeyOffered({"str", "int"}) /\ ~IsStringOrInteger(object))
            => (pc' = "idle" /\ outcome'.class = "DecodeError")
       /\ (\A i \in 1..Len(stack) :
              stack[i].type = STATE_MAP_VALUE => IsStringOrInteger(stack[i].key))']_vars

\* C6 amended: every accepted map key is a String or a number (an integer or
\* a float), and a completed nil, boolean, binary, array, map or extension
\* object offered as a key ends the decode with a DecodeError.
C6_KeysAreStringOrNumber ==
    [][/\ BadKeyOffered({"str", "int", "num"})
            => (pc' = "idle" /\ outcome'.class = "DecodeError")
       /\ KeysAmong({"str", "int", "num"})']_vars

\* C6 witness: a first decode() refused a boolean key; the next one, on the
\* bytes that follow, has accepted the float 1.5 as a key
C6_Witness ==
    /\ input = <<\h81, \hc3, \h81, \hca, \h3f, \hc0, \h00, \h00, \h01>>
    /\ calls = 2
    /\ hist.start = 2
    /\ Len(stack) = 1
    /\ stack[1].type = STATE_MAP_VALUE
    /\ stack[1].key = Num("f32", <<\h3f, \hc0, \h00, \h00>>)

\* no frame, and no read of a payload, has a length over the maximum of its kind
WithinLimits ==
    /\ \A i \in 1..Len(stack) :
          IF stack[i].type = STATE_ARRAY
          THEN ~Exceeds(stack[i].size, maxArrayLength)
          ELSE ~Exceeds(stack[i].size, maxMapLength)
    /\ (pc = "read" /\ ret = "str") => ~Exceeds(rd.length, maxStrLength)
    /\ (pc = "read" /\ ret = "bin") => ~Exceeds(rd.length, maxBinLength)
    /\ (pc = "read" /\ ret = "exttype") => ~Exceeds(size, maxExtLength)
    /\ (pc = "read" /\ ret = "extdata") => ~Exceeds(rd.length, maxExtLength)

\* C7: a declared length over the maximum of its kind ends the decode with a
\* DecodeError in the step that learns it: since the header byte was read only
\* the length field has been pulled, and the step pushes no frame, grows no
\* buffer and pulls nothing; no over-long frame or payload read ever exists.
C7_LengthLimits ==
    [][/\ OverLimit
            => /\ pc' = "idle" /\ outcome'.class = "DecodeError"
               /\ stack' = stack /\ Len(stack) = hist.mark.depth
               /\ cap' = cap /\ cap = hist.mark.cap /\ heap' = heap
               /\ consumed' = consumed
               /\ consumed = hist.mark.consumed
                               + (IF HasLength(headByte) THEN LengthWidth(headByte) ELSE 0)
       /\ WithinLimits']_vars

\* C7 witness: an array 16 header declared more elements than maxArrayLength
\* allows, and the decode ended with the error after the header and the two
\* bytes of the length field
C7_Witness ==
    /\ pc = "idle"
    /\ outcome.message = "Max length exceeded: array length"
    /\ headByte = \hdc
    /\ Len(stack) = 0
    /\ consumed = 3

\* C8: the values the generator of decodeMulti has yielded are, in order, the
\* successive top-level values of the source from where the generator began.
C8_MultiValueOrder ==
    (hist.genStart >= 0 /\ ~hist.mixed)
    => /\ Len(RefValues(input, hist.genStart, Len(out))) = Len(out)
       /\ \A i \in 1..Len(out) : out[i].seen = RefValues(input, hist.genStart, Len(out))[i]

\* C9: decode() does not return a value while the source still holds bytes.
C9_TrailingBytesRejected ==
    (mode = "single" /\ pc = "idle" /\ outcome.status = "value") => consumed = Len(input)

\* C10: until the first growth, the scratch buffer has the size the
\* streamBufferSize option gives, and 2048 bytes when the option is absent.
C10_InitialBufferSize ==
    cur = 1 => cap = (IF options.streamBufferSize.given
                      THEN options.streamBufferSize.value
                      ELSE DEFAULT_INITIAL_BUFFER_SIZE)

(***************************************************************************)
(* The MessagePack header table: the family of a header byte, and the      *)
(* value, size or field width the byte itself gives.                       *)
(***************************************************************************)
HeaderTable(h) ==
    CASE h >= \h00 /\ h <= \h7f -> [family |-> "positive fixint", arg |-> h]
      [] h >= \h80 /\ h <= \h8f -> [family |-> "fixmap", arg |-> h - \h80]
      [] h >= \h90 /\ h <= \h9f -> [family |-> "fixarray", arg |-> h - \h90]
      [] h >= \ha0 /\ h <= \hbf -> [family |-> "fixstr", arg |-> h - \ha0]
      [] h = \hc0 -> [family |-> "nil", arg |-> 0]
      [] h = \hc1 -> [family |-> "none", arg |-> 0]
      [] h = \hc2 -> [family |-> "false", arg |-> 0]
      [] h = \hc3 -> [family |-> "true", arg |-> 0]
      [] h = \hc4 -> [family |-> "bin", arg |-> 1]
      [] h = \hc5 -> [family |-> "bin", arg |-> 2]
      [] h = \hc6 -> [family |-> "bin", arg |-> 4]
      [] h = \hc7 -> [family |-> "ext", arg |-> 1]
      [] h = \hc8 -> [family |-> "ext", arg |-> 2]
      [] h = \hc9 -> [family |-> "ext", arg |-> 4]
      [] h = \hca -> [family |-> "float", arg |-> 4]
      [] h = \hcb -> [family |-> "float", arg |-> 8]
      [] h = \hcc -> [family |-> "uint", arg |-> 1]
      [] h = \hcd -> [family |-> "uint", arg |-> 2]
      [] h = \hce -> [family |-> "uint", arg |-> 4]
      [] h = \hcf -> [family |-> "uint", arg |-> 8]
      [] h = \hd0 -> [family |-> "int", arg |-> 1]
      [] h = \hd1 -> [family |-> "int", arg |-> 2]
      [] h = \hd2 -> [family |-> "int", arg |-> 4]
      [] h = \hd3 -> [family |-> "int", arg |-> 8]
      [] h = \hd4 -> [family |-> "fixext", arg |-> 1]
      [] h = \hd5 -> [family |-> "fixext", arg |-> 2]
      [] h = \hd6 -> [family |-> "fixext", arg |-> 4]
      [] h = \hd7 -> [family |-> "fixext", arg |-> 8]
      [] h = \hd8 -> [family |-> "fixext", arg |-> 16]
      [] h = \hd9 -> [family |-> "str", arg |-> 1]
      [] h = \hda -> [family |-> "str", arg |-> 2]
      [] h = \hdb -> [family |-> "str", arg |-> 4]
      [] h = \hdc -> [family |-> "array", arg |-> 2]
      [] h = \hdd -> [family |-> "array", arg |-> 4]
      [] h = \hde -> [family |-> "map", arg |-> 2]
      [] h = \hdf -> [family |-> "map", arg |-> 4]
      [] OTHER -> [family |-> "negative fixint", arg |-> h - 256]

\* the unsigned big-endian number in the first w bytes of data
RECURSIVE BigEndian(_, _)
BigEndian(data, w) ==
    IF w = 0 THEN 0 ELSE BigEndian(data, w - 1) * 256 + ByteAt(data, w - 1)

\* the two's-complement big-endian number in the first w bytes of data
TwosComplement(data, w) ==
    LET first == IF ByteAt(data, 0) >= 128 THEN ByteAt(data, 0) - 256 ELSE ByteAt(data, 0)
        rest == [i \in 1..(w - 1) |-> ByteAt(data, i)]
    IN  IF w = 1 THEN first
        ELSE IF w = 2 THEN first * 256 + BigEndian(rest, 1)
        ELSE (first * 65536 + BigEndian(rest, 2)) * 256 + ByteAt(rest, 2)

\* the decode ends, in this step, with a DecodeError that reports `msg`
FailsWith(msg) == pc' = "idle" /\ outcome' = DecodeError(msg)

\* this step starts a read of n bytes for `why`
StartsRead(n, why) == pc' = "read" /\ ret' = why /\ rd' = [length |-> n, pos |-> 0]

\* this step completes the value v
Completes(v) == pc' = "complete" /\ object' = v /\ stack' = stack

\* this step opens a string, a binary, an extension, an array or a map of
\* declared size n (or refuses a size over the maximum of the kind)
Opens(kind, n) ==
    CASE kind = "str" ->
             IF Exceeds(n, maxStrLength)
             THEN FailsWith("Max length exceeded: UTF-8 byte length")
             ELSE StartsRead(n, "str")
      [] kind = "bin" ->
             IF Exceeds(n, maxBinLength)
             THEN FailsWith("Max length exceeded: bin length")
             ELSE StartsRead(n, "bin")
      [] kind = "ext" ->
             IF Exceeds(n, maxExtLength)
             THEN FailsWith("Max length exceeded: ext length")
             ELSE StartsRead(1, "exttype") /\ size' = n
      [] kind = "array" ->
             IF n = 0 THEN Completes(Arr(<<>>))
             ELSE IF Exceeds(n, maxArrayLength)
             THEN FailsWith("Max length exceeded: array length")
             ELSE pc' = "loop" /\ stack' = Append(stack, ArrayFrame(n))
      [] OTHER ->
             IF n = 0 THEN Completes(Obj(<<>>))
             ELSE IF Exceeds(n, maxMapLength)
             THEN FailsWith("Max length exceeded: map length")
             ELSE pc' = "loop" /\ stack' = Append(stack, MapFrame(n))

\* the step taken on header byte h is the one the header table gives for it
AsTabled(h) ==
    LET t == HeaderTable(h)
    IN  CASE t.family \in {"positive fixint", "negative fixint"} -> Completes(Integer(t.arg))
          [] t.family = "nil" -> Completes(Nil)
          [] t.family = "false" -> Completes(Bool(FALSE))
          [] t.family = "true" -> Completes(Bool(TRUE))
          [] t.family = "fixmap" -> Opens("map", t.arg)
          [] t.family = "fixarray" -> Opens("array", t.arg)
          [] t.family = "fixstr" -> Opens("str", t.arg)
          [] t.family = "fixext" -> Opens("ext", t.arg)
          [] t.family \in {"float", "uint", "int"} -> StartsRead(t.arg, "num")
          [] t.family \in {"str", "bin", "ext", "array", "map"} -> StartsRead(t.arg, "len")
          [] OTHER -> FailsWith("Unrecognized type byte")

\* the number the header table gives for the w bytes read after header h
TabledNumber(h, data) ==
    LET t == HeaderTable(h)
        bits == [i \in 1..t.arg |-> ByteAt(data, i - 1)]
    IN  CASE t.family = "float" -> Num(IF t.arg = 4 THEN "f32" ELSE "f64", bits)
          [] t.family = "uint" ->
                 IF t.arg = 8 THEN Num("u64", bits) ELSE Integer(BigEndian(data, t.arg))
          [] OTHER ->
                 IF t.arg = 8 THEN Num("i64", bits) ELSE Integer(TwosComplement(data, t.arg))

\* C11: the step the decoder takes on a header byte is the one the MessagePack
\* header table gives for that byte: the fix formats complete or open their
\* value with the value or size held in the byte, the others read a number or
\* a length field of the tabled width and then complete the number or open a
\* value of the tabled family; 0xc1, and no other byte, is refused as an
\* unrecognized type byte.
C11_HeaderTable ==
    [][/\ pc = "dispatch" => AsTabled(headByte)
       /\ ReadReturns("num") => Completes(TabledNumber(headByte, heap[cur]))
       /\ ReadReturns("len")
            => Opens(HeaderTable(headByte).family, BigEndian(heap[cur], HeaderTable(headByte).arg))
       /\ FailsWith("Unrecognized type byte") => (pc = "dispatch" /\ headByte = \hc1)]_vars

\* C11 witness: the last header byte of the table, map 32 with one pair, has
\* had its four-byte length read and its frame pushed
C11_Witness ==
    /\ input = <<\hdf, \h00, \h00, \h00, \h01, \h01, \h01>>
    /\ consumed = 5
    /\ pc = "loop"
    /\ stack = <<MapFrame(1)>>

(***************************************************************************)
(* encode(value, options), src/src/encode.ts.  The value is a scalar       *)
(* wrapped in `levels` nested arrays.  The Encoder class is the one the    *)
(* specification describes: encode(buffer, value, depth) fails when depth  *)
(* exceeds the maximum it was constructed with, and encodes the elements   *)
(* of an array or map at depth + 1.                                        *)
(***************************************************************************)
\* the maxDepth options a caller passes
MaxDepthOptions ==
    {UNDEFINED, Given(0), Given(1), Given(2), Given(3), Given(DEFAULT_MAX_DEPTH + 1)}

\* a || b on an optional number: a unless a is undefined or 0
OrElse(a, b) == IF a.given /\ a.value # 0 THEN a.value ELSE b

InitEncode ==
    /\ input = <<>>
    /\ options = DefaultOptions
    /\ consumed = 0
    /\ headByte = HEAD_BYTE_REQUIRED
    /\ stack = <<>>
    /\ cap = InitialCapacity(options)
    /\ cur = 1
    /\ heap = <<(<<>>)>>
    /\ pc = "idle"
    /\ ret = ""
    /\ rd = NoRead
    /\ size = 0
    /\ extType = 0
    /\ object = Undefined
    /\ mode = "single"
    /\ gen = "none"
    /\ calls = 0
    /\ outcome = NoOutcome
    /\ out = <<>>
    /\ hist = [lastPull |-> NoPull, mark |-> NoMark, start |-> 0, origin |-> -1,
               genStart |-> -1, mixed |-> FALSE]
    /\ \E o \in MaxDepthOptions, n \in 0..MaxLevels :
          enc = [NoEncode EXCEPT !.maxDepth = o, !.levels = n]

\* encode(), lines 12-19: the Encoder is built and asked for the value at depth 1
Encode ==
    /\ enc.pc = "idle"
    /\ enc.outcome = "none"
    /\ enc' = [enc EXCEPT !.limit = OrElse(enc.maxDepth, DEFAULT_MAX_DEPTH),
                          !.depth = 1,
                          !.pc = "walk"]
    /\ UNCHANGED <<input, consumed, options, headByte, stack, cap, cur, heap, pc, ret, rd,
                   size, extType, object, mode, gen, calls, outcome, out, hist>>

\* Encoder.encode(buffer, value, depth) on the value found at this depth: the
\* depth test, then the descent into an array or the end at the scalar
EncoderEncode ==
    /\ enc.pc = "walk"
    /\ \/ /\ enc.depth > enc.limit
          /\ enc' = [enc EXCEPT !.pc = "idle", !.outcome = "depth exceeded"]
       \/ /\ ~(enc.depth > enc.limit)
          /\ enc.depth <= enc.levels
          /\ enc' = [enc EXCEPT !.depth = @ + 1]
       \/ /\ ~(enc.depth > enc.limit)
          /\ ~(enc.depth <= enc.levels)
          /\ enc' = [enc EXCEPT !.pc = "idle", !.outcome = "returned"]
    /\ UNCHANGED <<input, consumed, options, headByte, stack, cap, cur, heap, pc, ret, rd,
                   size, extType, object, mode, gen, calls, outcome, out, hist>>

NextEncode ==
    \/ Encode
    \/ EncoderEncode

SpecEncode == InitEncode /\ [][NextEncode]_vars

\* C12: a call of encode() ends with the depth-exceeded error exactly when the
\* value's deepest element, the top-level value being at depth 1, lies deeper
\* than the maxDepth the caller configured, or deeper than 100 when the caller
\* configured none.
C12_DepthLimit ==
    enc.outcome # "none"
    => (enc.outcome = "depth exceeded"
        <=> enc.levels + 1 > (IF enc.maxDepth.given THEN enc.maxDepth.value
                                                     ELSE DEFAULT_MAX_DEPTH))

\* the running count of a frame: the next index to write, the pairs read
Count(f) == IF f.type = STATE_ARRAY THEN f.position ELSE f.readCount

\* every frame on the stack declares at least one element and has received
\* fewer than it declares
FramesOpen ==
    \A i \in 1..Len(stack) : stack[i].size >= 1 /\ Count(stack[i]) >= 0
                                /\ Count(stack[i]) < stack[i].size

\* how many frames, from the top of stk down, receive their last element when
\* a value is completed
RECURSIVE Closing(_)
Closing(stk) ==
    IF Len(stk) = 0 THEN 0
    ELSE LET f == Top(stk)
         IN  IF f.type # STATE_MAP_KEY /\ Count(f) + 1 = f.size
             THEN 1 + Closing(Pop(stk))
             ELSE 0

\* C13: every frame on the stack has a declared size of at least 1 and a
\* running count below it; a step that completes a value removes exactly the
\* frames that receive their last element in it and counts the value in the
\* frame below them, no other step of a decode removes a frame, and a value is
\* returned with the stack empty.
C13_FrameDiscipline ==
    [][/\ FramesOpen'
       /\ (pc = "complete" /\ outcome'.status # "thrown")
            => LET left == Len(stack) - Closing(stack)
               IN  /\ Len(stack') = left
                   /\ \A i \in 1..(left - 1) : stack'[i] = stack[i]
                   /\ left > 0 =>
                         IF stack[left].type = STATE_MAP_KEY
                         THEN /\ stack'[left].type = STATE_MAP_VALUE
                              /\ Count(stack'[left]) = Count(stack[left])
                         ELSE Count(stack'[left]) = Count(stack[left]) + 1
       /\ (pc # "complete" /\ pc # "idle") => Len(stack') >= Len(stack)
       /\ outcome'.status = "value" => stack' = <<>>]_vars

\* C13 witness: [[1, 2], [[]]] has been returned; its last byte closed the
\* two frames that were open
C13_Witness ==
    /\ input = <<\h92, \h92, \h01, \h02, \h91, \h90>>
    /\ pc = "idle"
    /\ outcome.status = "value"
    /\ consumed = 6
    /\ stack = <<>>

\* a map frame holds a key exactly while it awaits a value
KeyIffAwaitingValue ==
    \A i \in 1..Len(stack) :
       stack[i].type # STATE_ARRAY => (stack[i].key # Nil <=> stack[i].type = STATE_MAP_VALUE)

\* frame g is frame f one phase later: f awaited a key and g awaits the value
\* of the same pair, or f awaited a value and g awaits the key of the next pair
NextPhase(f, g) ==
    \/ /\ f.type = STATE_MAP_KEY /\ g.type = STATE_MAP_VALUE
       /\ g.readCount = f.readCount /\ g.map = f.map
    \/ /\ f.type = STATE_MAP_VALUE /\ g.type = STATE_MAP_KEY
       /\ g.readCount = f.readCount + 1

\* C14: a map frame's pending key is set if and only if the frame awaits a
\* value; a frame is pushed awaiting its first key, with no key and no pair
\* read, and from then on each change of it is a move to the next phase: key,
\* value, key, value, one pair per round.
C14_KeyPhases ==
    [][/\ KeyIffAwaitingValue'
       /\ \A i \in 1..Len(stack') :
             stack'[i].type # STATE_ARRAY
             => IF i > Len(stack)
                THEN /\ stack'[i].type = STATE_MAP_KEY
                     /\ stack'[i].key = Nil
                     /\ stack'[i].readCount = 0
                ELSE stack'[i] = stack[i] \/ NextPhase(stack[i], stack'[i])]_vars

\* C14 witness: a map 16 of two pairs awaits the value of its second pair,
\* with the key 2 pending
C14_Witness ==
    /\ input = <<\hde, \h00, \h02, \h01, \hc0, \h02, \hc0>>
    /\ Len(stack) = 1
    /\ stack[1].type = STATE_MAP_VALUE
    /\ stack[1].readCount = 1
    /\ stack[1].key = Integer(2)

\* C15: the decode of every top-level value starts with an empty stack and
\* with the head byte required: on entry to decode(), whatever the call
\* before left behind, and on each entry of the generator of decodeMulti; a
\* value is returned or yielded with the stack empty and the head byte
\* required.
C15_FreshStart ==
    [][/\ (pc = "idle" /\ pc' = "loop")
            => (stack' = <<>> /\ headByte' = HEAD_BYTE_REQUIRED)
       /\ outcome'.status = "value"
            => (stack' = <<>> /\ headByte' = HEAD_BYTE_REQUIRED)]_vars

\* C16: the head byte is required again as soon as a header byte has been
\* interpreted, when its frame is pushed and when its value is completed, so
\* every iteration of the decode loop starts with the head byte required and
\* reads its header byte from the source.
C16_HeadByteCleared ==
    [][/\ Len(stack') > Len(stack) => headByte' = HEAD_BYTE_REQUIRED
       /\ pc = "complete" => headByte' = HEAD_BYTE_REQUIRED
       /\ pc' = "loop" => headByte' = HEAD_BYTE_REQUIRED
       /\ pc' = "dispatch" => (pc = "read" /\ ret = "head" /\ consumed = hist'.mark.consumed)]_vars

\* the properties of an object after the pair (key, v) is put into it in wire
\* order: last, or in the place of the pair of the same name it replaces
WithPair(pairs, key, v) ==
    LET name == PropertyKey(key)
        pair == [name |-> name, value |-> v]
        same == { i \in 1..Len(pairs) : pairs[i].name = name }
    IN  IF same = {} THEN pairs \o <<pair>>
        ELSE [i \in 1..Len(pairs) |-> IF i \in same THEN pair ELSE pairs[i]]

\* what a completed value obj hands to the innermost frame of stk that stays
\* open (or to the caller): obj itself, or the outermost container that its
\* arrival completes, built in wire order
RECURSIVE Delivered(_, _)
Delivered(stk, obj) ==
    IF Len(stk) = 0 THEN obj
    ELSE LET f == Top(stk)
         IN  IF f.type = STATE_ARRAY /\ f.position + 1 = f.size
             THEN Delivered(Pop(stk), Arr(f.array \o <<obj>>))
             ELSE IF f.type = STATE_MAP_VALUE /\ f.readCount + 1 = f.size
             THEN Delivered(Pop(stk), Obj(WithPair(f.map, f.key, obj)))
             ELSE obj

\* C17: an array frame holds exactly the elements completed for it so far, the
\* k-th at index k-1, and each completion appends to the innermost open frame:
\* the next element of an array, the pending key of a map, or the next pair of
\* a map after those already put; a container whose last element arrives is
\* handed on, in the same way, to the frame below or to the caller.
C17_WireOrder ==
    [][/\ \A i \in 1..Len(stack') :
             stack'[i].type = STATE_ARRAY => Len(stack'[i].array) = stack'[i].position
       /\ (pc = "complete" /\ outcome'.status # "thrown")
            => LET left == Len(stack) - Closing(stack)
                   d == Delivered(stack, object)
               IN  IF left = 0 THEN outcome'.value = d
                   ELSE CASE stack[left].type = STATE_ARRAY ->
                                 /\ stack'[left].array = stack[left].array \o <<d>>
                                 /\ stack'[left].array[stack[left].position + 1] = d
                          [] stack[left].type = STATE_MAP_KEY ->
                                 /\ stack'[left].key = d
                                 /\ stack'[left].map = stack[left].map
                          [] OTHER ->
                                 stack'[left].map = WithPair(stack[left].map, stack[left].key, d)]_vars

\* C17 witness: {"a": [1], "b": {}} has been returned, its pairs in wire order
C17_Witness ==
    /\ pc = "idle"
    /\ outcome.status = "value"
    /\ outcome.value = Obj(<<[name |-> <<\h61>>, value |-> Arr(<<Integer(1)>>)],
                             [name |-> <<\h62>>, value |-> Obj(<<>>)]>>)

\* C18: every pull is given a destination of exactly the bytes the read in
\* progress still misses, and a value is returned when the bytes taken from
\* the source since the call began are exactly the encoding of one value, so
\* that the next byte of the source is the header byte of the next value.
C18_NoReadAhead ==
    [][/\ (pc = "read" /\ rd.pos < rd.length)
            => hist'.lastPull.want = rd.length - rd.pos
       /\ outcome'.status = "value"
            => /\ RefValue(input, hist.start).status = "value"
               /\ RefValue(input, hist.start).next = consumed']_vars

\* what the values stored in frame f show, read through heap h
Shown(h, f) ==
    IF f.type = STATE_ARRAY
    THEN Resolve(h, Arr(f.array))
    ELSE Resolve(h, Arr(<<Obj(f.map), f.key>>))

\* C19: no step of the decoder changes the bytes of a binary value, or of an
\* extension payload, that is already stored in an array or a map under
\* construction; a returned value shows the bytes its binaries were decoded
\* from.
C19_StoredBinariesStable ==
    [][\A i \in 1..Len(stack) : Shown(heap', stack[i]) = Shown(heap, stack[i])]_vars

\* C20: every call of decode() ends, with a value or with an error; each
\* iteration of its loop starts by reading a header byte, and a read is left
\* for the code that follows it only when all its bytes have been taken from
\* the source, so each iteration consumes at least one byte.
C20_Termination ==
    /\ (pc # "idle") ~> (pc = "idle" /\ outcome.status \in {"value", "thrown"})
    /\ [][/\ (mode = "single" /\ pc = "loop") => (pc' = "read" /\ rd'.length = 1 /\ rd'.pos = 0)
          /\ (pc = "read" /\ pc' # "read" /\ pc' # "idle")
               => (rd.pos = rd.length /\ rd.length <= cap)
          /\ (pc = "read" /\ rd.pos < rd.length /\ pc' = "read")
               => (rd'.pos > rd.pos /\ rd'.pos - rd.pos = consumed' - consumed)]_vars

\* C20 witness: a decode() of [[1, 2], [[]]], six iterations of the loop, has
\* ended with its value and all six bytes consumed
C20_Witness ==
    /\ input = <<\h92, \h92, \h01, \h02, \h91, \h90>>
    /\ mode = "single"
    /\ calls = 1
    /\ pc = "idle"
    /\ outcome.status = "value"
    /\ consumed = 6

\* C21: the declared length of an extension is tested against maxExtLength
\* before its type code is read and against maxBinLength after it: a length
\* within maxExtLength and over maxBinLength ends the decode with the
\* DecodeError of decodeBinary once the type code byte has been consumed and
\* before any payload byte is, and a payload reaches the extension registry
\* only with a length within both limits.
C21_ExtensionLimits ==
    [][/\ (ReadReturns("exttype") /\ Exceeds(size, maxBinLength))
            => /\ ~Exceeds(size, maxExtLength)
               /\ pc' = "idle"
               /\ outcome' = DecodeError("Max length exceeded: bin length")
               /\ consumed' = consumed
               /\ consumed = hist.mark.consumed + 1
                               + (IF IsExtN(headByte) THEN LengthWidth(headByte) ELSE 0)
       /\ (pc' = "read" /\ ret' = "exttype") => ~Exceeds(size', maxExtLength)
       /\ (pc' = "read" /\ ret' = "extdata")
            => (~Exceeds(rd'.length, maxExtLength) /\ ~Exceeds(rd'.length, maxBinLength))
       /\ ReadReturns("extdata")
            => (~Exceeds(rd.length, maxExtLength) /\ ~Exceeds(rd.length, maxBinLength))]_vars

\* C21 witness: with maxBinLength alone configured, a fixext 2 was refused by
\* decodeBinary after its header and its type code
C21_Witness ==
    /\ ~options.maxExtLength.given
    /\ options.maxBinLength.given
    /\ headByte = \hd5
    /\ pc = "idle"
    /\ outcome = DecodeError("Max length exceeded: bin length")
    /\ consumed = 2

\* C22: the sequence of decodeMulti ends by an error and in no other way.  A
\* request made with the source exhausted, after a call that returned a
\* value, starts with the head byte required and an empty stack, asks the
\* source for a header byte and fails with the insufficient-data RangeError;
\* every error raised while the generator runs ends the generator, an ended
\* generator stays ended, and only an ended generator reports the end of the
\* sequence, yielding nothing more.
C22_SequenceEndsByError ==
    [][/\ (pc = "idle" /\ pc' = "loop" /\ mode' = "multi"
           /\ outcome.status # "thrown" /\ consumed = Len(input))
            => (headByte' = HEAD_BYTE_REQUIRED /\ stack' = <<>>)
       /\ (mode = "multi" /\ pc # "idle" /\ hist.start = Len(input)
           /\ headByte = HEAD_BYTE_REQUIRED /\ stack = <<>>)
            => \/ pc' = "read" /\ ret' = "head" /\ rd' = [length |-> 1, pos |-> 0]
               \/ pc' = "idle" /\ outcome' = MORE_DATA /\ gen' = "done"
       /\ (gen' = "done" /\ gen # "done") => outcome'.status = "thrown"
       /\ (mode = "multi" /\ pc # "idle" /\ outcome'.status = "thrown") => gen' = "done"
       /\ gen = "done" => (gen' = "done" /\ out' = out)
       /\ (gen = "done" /\ mode' = "multi" /\ calls' # calls)
            => (outcome' = Finished /\ pc' = "idle" /\ consumed' = consumed)
       /\ outcome' = Finished => gen = "done"]_vars

\* C22 witness: the generator yielded the two values of a two-byte input,
\* was asked for a third with the source exhausted, and ended with the
\* insufficient-data error
C22_Witness ==
    /\ Len(input) = 2
    /\ Len(out) = 2
    /\ ~hist.mixed
    /\ hist.start = Len(input)
    /\ mode = "multi"
    /\ pc = "idle"
    /\ outcome = MORE_DATA
    /\ gen = "done"

====
